---- MODULE Spec2Model ----
(***************************************************************************)
(* Model of the collection indexer of the blog publisher plugin:           *)
(* SettingsManager.generateAst / _generateAst (rebuildAll),                *)
(* SettingsManager.saveAsDraft (draftOne) and                              *)
(* SettingsManager.saveAsPublished (publishOne) of src/src/Settings.ts,    *)
(* acting on an Obsidian vault.                                            *)
(*                                                                         *)
(* Paths are sequences of tokens: "a/s/z.draft.md" is                      *)
(* <<"a", "/", "s", "/", "z", ".draft", ".md">>.  startsWith, endsWith and *)
(* substring of the code are prefix, suffix and sub-sequence on tokens.    *)
(* Every async function is cut at its awaits: one action per continuation. *)
(*                                                                         *)
(* SpecParse models parseMarkdown of src/src/parsers/parseMarkdown.ts (the *)
(* header scan, the footer scan, the link attachers) on documents that are *)
(* sequences of characters; SpecPublish models publishChanges of           *)
(* src/unnamed/part_001 with triggerCloudflareDeployment of                *)
(* src/src/cloudflare.ts.                                                  *)
(* SpecPreview models the preview lines of the two assemblers, and         *)
(* SpecIndexed publishOne started on an absent, a rebuilt and an           *)
(* unparseable main.meta.json.                                             *)
(***************************************************************************)
EXTENDS Integers, Sequences, FiniteSets, TLC

\* ------------------------------------------------------------------ bounds

\* User actions (commands, edits, settings changes) in one behaviour.
MaxOps == 3

\* Vault writes or deletes that the environment lets fail in one behaviour.
MaxFaults == 1

\* Snapshot infixes (.draft, .published) a command's target file may carry:
\* the command palette accepts any markdown file, a snapshot copy included.
MaxInfix == 0

\* Keys of a document's header and of its footer.
MaxHeaderKeys == 2

MaxFooterKeys == 1

\* Links in the body of a document.
MaxLinks == 2

\* Base folders selected in the publish dialog.
MaxSelected == 2

\* Polls of a Cloudflare build before the deployment times out (240 in
\* cloudflare.ts).
MaxPolls == 2

\* ------------------------------------------------------------ path strings

FolderA == <<"a">>
FolderS == <<"a", "/", "s">>
Folders == {FolderA, FolderS}

DocX == <<"a", "/", "x", ".md">>
DocZ == <<"a", "/", "s", "/", "z", ".md">>
Docs == {DocX, DocZ}

StartsWith(s, pre) ==
  /\ Len(pre) <= Len(s)
  /\ SubSeq(s, 1, Len(pre)) = pre

EndsWith(s, suf) ==
  /\ Len(suf) <= Len(s)
  /\ SubSeq(s, Len(s) - Len(suf) + 1, Len(s)) = suf

\* s.substring(n) counted in tokens.
Substring(s, n) == SubSeq(s, n + 1, Len(s))

\* Index of the last "/" of a path, 0 when there is none.
LastSlash(p) ==
  LET idx == {i \in 1..Len(p) : p[i] = "/"}
  IN  IF idx = {} THEN 0 ELSE CHOOSE i \in idx : \A j \in idx : j <= i

\* TFile.name: the last component of the path.
FileName(p) == Substring(p, LastSlash(p))

\* TFile.basename: the name without its extension.
BaseName(p) == LET n == FileName(p) IN SubSeq(n, 1, Len(n) - 1)

\* file.path.substring(0, file.path.length - 3): the path without ".md".
Stem(p) == SubSeq(p, 1, Len(p) - 1)

IsMarkdown(p) == EndsWith(p, <<".md">>)

IsSnapshotName(p) ==
  \/ EndsWith(FileName(p), <<".draft", ".md">>)
  \/ EndsWith(FileName(p), <<".published", ".md">>)

\* Number of .draft / .published infixes of a name.
Infixes(p) == Cardinality({i \in 1..Len(p) : p[i] \in {".draft", ".published"}})

MetadataPath(base) == base \o <<"/", "main", ".meta.json">>

\* helpers/util kebabize: lower-case, each run of characters that are
\* neither letters nor digits becomes one hyphen, and the hyphens at both
\* ends are dropped.  KebabToken is the form of one token of a name.
KebabToken(t) ==
  CASE t = ".draft" -> "-draft"
    [] t = ".published" -> "-published"
    [] t = "Foo" -> "foo"
    [] t = "My" -> "my"
    [] t = "Note" -> "note"
    [] t = " " -> "-"
    [] OTHER -> t

RECURSIVE KebabFrom(_, _)
KebabFrom(tokens, i) ==
  IF i > Len(tokens) THEN <<>>
  ELSE IF \/ tokens[i] # "-"
          \/ /\ i > 1
             /\ tokens[i - 1] # "-"
             /\ \E j \in (i + 1)..Len(tokens) : tokens[j] # "-"
  THEN <<tokens[i]>> \o KebabFrom(tokens, i + 1)
  ELSE KebabFrom(tokens, i + 1)

kebabize(name) == KebabFrom([i \in 1..Len(name) |-> KebabToken(name[i])], 1)

\* --------------------------------------------------------- document texts

\* What a source text holds: its frontmatter fields and whether
\* parseMarkdown raises on it (malformed footer JSON, malformed YAML).
\* An absent frontmatter field is <<>>.
NoValue == <<>>

TextTagT == [id |-> "tagT", ok |-> TRUE, tags |-> <<"t">>, path |-> NoValue]
TextTagTU == [id |-> "tagTU", ok |-> TRUE, tags |-> <<"t", "u">>, path |-> NoValue]
TextPath == [id |-> "path", ok |-> TRUE, tags |-> <<"u">>, path |-> <<"p">>]
TextBad == [id |-> "bad", ok |-> FALSE, tags |-> <<>>, path |-> NoValue]

Texts == {TextTagT, TextTagTU, TextPath, TextBad}

\* --------------------------------------------------------------- records

StartLen(base) == IF Len(base) > 0 THEN Len(base) + 1 ELSE 0

SavePath(file) == Stem(file) \o <<".ast.json">>

\* The record both assemblers build, _generateAst (lines 1726-1755) and
\* _generateAstForFile (lines 1841-1870): the file's own properties with
\* path rewritten, then the frontmatter spread over them, then tags, slug
\* and preview.  md is the source file as read: its text and its stat.
FrontmatterOverPath(md, ownPath) ==
  IF md.text.path # NoValue THEN md.text.path ELSE ownPath

FileData(file, base, md) ==
  [path |-> FrontmatterOverPath(md, Substring(SavePath(file), StartLen(base))),
   name |-> FileName(file),
   mtime |-> md.mtime,
   tags |-> md.text.tags,
   slug |-> kebabize(BaseName(file)),
   preview |-> NoValue]

\* JSON.stringify(jsonFile, ...): the record and the tree parsed from the text.
ArtifactJson(file, base, md) ==
  [kind |-> "ast", rec |-> FileData(file, base, md), text |-> md.text.id]

\* saveAsPublished: fileData = {...jsonFile}; delete fileData.ast;
\* fileData.path = astPath.substring(startLen).
PublishedFileData(file, base, md) ==
  [FileData(file, base, md) EXCEPT
     !.path = Substring(SavePath(file), StartLen(base))]

\* files.sort((a, b) => b.stat.mtime - a.stat.mtime): a stable sort,
\* descending by mtime.
InsertByMtime(sorted, r) ==
  LET before == {i \in 1..Len(sorted) : sorted[i].mtime >= r.mtime}
      k == Cardinality(before)
  IN  SubSeq(sorted, 1, k) \o <<r>> \o SubSeq(sorted, k + 1, Len(sorted))

RECURSIVE SortFrom(_, _)
SortFrom(sorted, rest) ==
  IF rest = <<>> THEN sorted
  ELSE SortFrom(InsertByMtime(sorted, Head(rest)), Tail(rest))

\* Faulty variant: the sort left out.
SortByMtimeDesc_Unsorted(files) == files

SortByMtimeDesc(files) == SortFrom(<<>>, files)

\* tagMap.get(tag) / push / tagMap.set(tag, col): a Map keeps its keys in
\* first-insertion order.
PathSlug(f) == [path |-> f.path, slug |-> f.slug, preview |-> f.preview]

TagMapPush(tagMap, tag, entry) ==
  IF \E i \in 1..Len(tagMap) : tagMap[i].name = tag
  THEN [i \in 1..Len(tagMap) |->
          IF tagMap[i].name = tag
          THEN [tagMap[i] EXCEPT !.entries = Append(@, entry)]
          ELSE tagMap[i]]
  ELSE Append(tagMap, [name |-> tag, entries |-> <<entry>>])

RECURSIVE TagsOfFile(_, _, _)
TagsOfFile(tagMap, f, tags) ==
  IF tags = <<>> THEN tagMap
  ELSE TagsOfFile(TagMapPush(tagMap, Head(tags), PathSlug(f)), f, Tail(tags))

RECURSIVE TagsFrom(_, _)
TagsFrom(tagMap, files) ==
  IF files = <<>> THEN tagMap
  ELSE TagsFrom(TagsOfFile(tagMap, Head(files), Head(files).tags), Tail(files))

\* Faulty variant: the tag index built without the last record of the list.
BuildTags_WithoutLast(files) == TagsFrom(<<>>, SubSeq(files, 1, Len(files) - 1))

\* The tag index of a file list, as both writers of main.meta.json build it.
BuildTags(files) == TagsFrom(<<>>, files)

\* mainMeta / newMeta as written to main.meta.json.
MetaJson(files) == [kind |-> "meta", files |-> files, tags |-> BuildTags(files)]

\* existingMeta.files.findIndex((f) => f.path === fileData.path)
FindIndex(files, path) ==
  LET hits == {i \in 1..Len(files) : files[i].path = path}
  IN  IF hits = {} THEN 0 ELSE CHOOSE i \in hits : \A j \in hits : i <= j

\* Faulty variant: the record is pushed whether or not its path is listed.
Upsert_AlwaysPush(files, fileData) == Append(files, fileData)

\* Replace the record at the index found, else push.
Upsert(files, fileData) ==
  LET idx == FindIndex(files, fileData.path)
  IN  IF idx > 0 THEN [files EXCEPT ![idx] = fileData]
      ELSE Append(files, fileData)

\* ----------------------------------------------------------------- state

VARIABLES
  vault,     \* path -> content, for the files that exist
  settings,  \* [baseFolders: sequence of folder paths, legacy: folder or <<>>]
  calls,     \* call id -> the suspended call (its position and locals)
  done,      \* [op, file, base, result] of the calls that have returned
  ops,       \* user actions so far
  faults,    \* vault operations the environment has failed so far
  now,       \* the clock the vault stamps modified markdown files with
  last,      \* history: the user's latest action, [op, file]
  parser,    \* the parseMarkdown call under way: its input and its result
  deploy     \* the publishChanges run under way

vars == <<vault, settings, calls, done, ops, faults, now, last, parser, deploy>>

Exists(p) == p \in DOMAIN vault

\* vault.create / vault.modify once it has succeeded.
Put(v, p, content) == [q \in DOMAIN v \cup {p} |-> IF q = p THEN content ELSE v[q]]

\* vault.delete once it has succeeded.
Remove(v, paths) == [q \in DOMAIN v \ paths |-> v[q]]

MarkdownFiles == {p \in DOMAIN vault : IsMarkdown(p)}

\* (this.settings['base-folders'] ?? []).map((b) => b.path), with the legacy
\* 'base-folder' setting when the list is empty.
BaseFolders ==
  IF Len(settings.baseFolders) = 0
  THEN IF settings.legacy # NoValue THEN <<settings.legacy>> ELSE <<>>
  ELSE settings.baseFolders

\* Faulty variant: the last configured folder that holds the file.
getBaseFolderForFile_LastMatch(file) ==
  LET bs == BaseFolders
      hits == {i \in 1..Len(bs) : StartsWith(file, bs[i] \o <<"/">>)}
  IN  IF hits = {} THEN NoValue
      ELSE bs[CHOOSE i \in hits : \A j \in hits : j <= i]

\* baseFolders.find((f) => file.path.startsWith(`${f}/`)) ?? null
getBaseFolderForFile(file) ==
  LET bs == BaseFolders
      hits == {i \in 1..Len(bs) : StartsWith(file, bs[i] \o <<"/">>)}
  IN  IF hits = {} THEN NoValue
      ELSE bs[CHOOSE i \in hits : \A j \in hits : i <= j]

\* Whether the environment may fail the vault operation now completing.
FailChoices == IF faults < MaxFaults THEN {FALSE, TRUE} ELSE {FALSE}

\* vault.create throws when the path is taken; vault.modify of a file that
\* exists succeeds, and of one deleted meanwhile may throw or write.
WriteThrows(kind, p) ==
  IF kind = "create" THEN {Exists(p)}
  ELSE IF Exists(p) THEN {FALSE} ELSE {FALSE, TRUE}

WriteKind(p) == IF Exists(p) THEN "modify" ELSE "create"

NextId == ops + 1

Return(id, result) ==
  /\ calls' = [i \in DOMAIN calls \ {id} |-> calls[i]]
  /\ done' = done \cup {[op |-> calls[id].op, file |-> calls[id].file,
                          base |-> calls[id].base, result |-> result]}

Suspend(id, call) ==
  /\ calls' = [i \in DOMAIN calls \cup {id} |-> IF i = id THEN call ELSE calls[i]]
  /\ UNCHANGED done

\* Every call record also carries two history fields, read by no action:
\* prev, the user's action before the command, and before, the vault as the
\* command found it.

\* A command may start when fewer than limit calls are in flight.
MayStart(limit) ==
  /\ ops < MaxOps
  /\ Cardinality(DOMAIN calls) < limit

\* The command palette's checkCallback: any markdown file.
IsTarget(file) ==
  /\ file \in MarkdownFiles
  /\ Infixes(file) <= MaxInfix

\* No parseMarkdown call and no publishChanges run is followed.
ParserOff == [pc |-> "off"]

DeployOff == [pc |-> "off"]

Init ==
  /\ vault = [d \in Docs |->
                [kind |-> "md",
                 text |-> IF d = DocX THEN TextTagT ELSE TextPath,
                 mtime |-> 1]]
  /\ settings = [baseFolders |-> <<FolderA>>, legacy |-> NoValue]
  /\ calls = <<>>
  /\ done = {}
  /\ ops = 0
  /\ faults = 0
  /\ now = 1
  /\ last = [op |-> "none", file |-> NoValue]
  /\ parser = ParserOff
  /\ deploy = DeployOff

\* ------------------------------------------------- the user and settings

\* The user edits documents and changes settings between commands, not
\* while one is running.
Idle == DOMAIN calls = {}

UserMayAct == ops < MaxOps /\ Idle

\* The user saves a source document with a new text.
EditDocument(d, text) ==
  /\ UserMayAct
  /\ d \in Docs
  /\ vault' = Put(vault, d, [kind |-> "md", text |-> text, mtime |-> now + 1])
  /\ now' = now + 1
  /\ ops' = ops + 1
  /\ last' = [op |-> "edit", file |-> d]
  /\ UNCHANGED <<settings, calls, done, faults, parser, deploy>>

\* Settings tab, "Add base folder" (Settings.ts 349-350).
AddBaseFolder(f) ==
  /\ UserMayAct
  /\ \A i \in 1..Len(settings.baseFolders) : settings.baseFolders[i] # f
  /\ settings' = [settings EXCEPT !.baseFolders = Append(@, f)]
  /\ ops' = ops + 1
  /\ last' = [op |-> "settings", file |-> NoValue]
  /\ UNCHANGED <<vault, calls, done, faults, now, parser, deploy>>

\* Settings tab, "Remove" (Settings.ts 277-280): updated.splice(index, 1).
RemoveBaseFolder(i) ==
  /\ UserMayAct
  /\ i \in 1..Len(settings.baseFolders)
  /\ settings' = [settings EXCEPT !.baseFolders =
                    SubSeq(@, 1, i - 1) \o SubSeq(@, i + 1, Len(@))]
  /\ ops' = ops + 1
  /\ last' = [op |-> "settings", file |-> NoValue]
  /\ UNCHANGED <<vault, calls, done, faults, now, parser, deploy>>

\* --------------------------------------------- draftOne and publishOne

\* saveAsDraft / saveAsPublished up to the first await,
\* vault.read(file) in _generateAstForFile: the base folder is looked up,
\* and without one the call returns after a Notice.
BeginSave(limit, op, file) ==
  /\ MayStart(limit)
  /\ IsTarget(file)
  /\ ops' = ops + 1
  /\ last' = [op |-> op, file |-> file]
  /\ LET base == getBaseFolderForFile(file)
     IN  IF base = NoValue
         THEN /\ done' = done \cup {[op |-> op, file |-> file, base |-> NoValue,
                                      result |-> "nobase"]}
              /\ UNCHANGED calls
         ELSE Suspend(NextId, [op |-> op, pc |-> "read", file |-> file, base |-> base,
                               prev |-> last, before |-> vault])
  /\ UNCHANGED <<vault, settings, faults, now, parser, deploy>>

DraftBegin(limit, file) == BeginSave(limit, "draft", file)

PublishBegin(limit, file) == BeginSave(limit, "publish", file)

\* The suffix of the artifact and of the raw copy each command writes.
ArtifactSuffix(op) == IF op = "draft" THEN <<".draft", ".ast.json">> ELSE <<".ast.json">>

CopySuffix(op) == IF op = "draft" THEN <<".draft", ".md">> ELSE <<".published", ".md">>

ArtifactPath(call) == Stem(call.file) \o ArtifactSuffix(call.op)

CopyPath(call) == Stem(call.file) \o CopySuffix(call.op)

\* vault.read(file) has resolved: _generateAstForFile parses the text and
\* builds jsonFile; the caller looks the artifact up and starts its write.
\* parseMarkdown raising ends the call in its catch block.
SaveAssemble(id) ==
  /\ id \in DOMAIN calls
  /\ calls[id].op \in {"draft", "publish"}
  /\ calls[id].pc = "read"
  /\ LET call == calls[id]
         md == vault[call.file]
     IN  IF ~md.text.ok
         THEN Return(id, "error")
         ELSE Suspend(id, [call EXCEPT !.pc = "writeAst"] @@
                [jsonFile |-> ArtifactJson(call.file, call.base, md),
                 fileData |-> PublishedFileData(call.file, call.base, md),
                 readFile |-> md.text,
                 kind |-> WriteKind(ArtifactPath(call))])
  /\ UNCHANGED <<vault, settings, ops, faults, now, last, parser, deploy>>

\* The artifact write has settled: on success the raw copy is looked up and
\* its write started.
SaveWriteArtifact(id) ==
  /\ id \in DOMAIN calls
  /\ calls[id].op \in {"draft", "publish"}
  /\ calls[id].pc = "writeAst"
  /\ LET call == calls[id]
         path == ArtifactPath(call)
     IN  \E fail \in FailChoices, throws \in WriteThrows(call.kind, path) :
           /\ faults' = IF fail THEN faults + 1 ELSE faults
           /\ IF fail \/ throws
              THEN /\ Return(id, "error")
                   /\ UNCHANGED vault
              ELSE /\ vault' = Put(vault, path, call.jsonFile)
                   /\ Suspend(id, [call EXCEPT !.pc = "writeMd",
                                               !.kind = WriteKind(CopyPath(call))])
  /\ UNCHANGED <<settings, ops, now, last, parser, deploy>>

\* Faulty variant: saveAsDraft goes on to main.meta.json as saveAsPublished does.
UpdatesIndex_Always(op) == TRUE

\* saveAsPublished goes on to main.meta.json after the raw copy (lines
\* 1944-1990); saveAsDraft ends there (lines 1904-1905).
UpdatesIndex(op) == op = "publish"

\* The entries the published record is upserted into, sorted again.
UpsertedFiles(files, fileData) == SortByMtimeDesc(Upsert(files, fileData))

\* The raw-text copy has been written.  saveAsDraft is finished;
\* saveAsPublished goes on to main.meta.json: if the file exists its read is
\* started, else the new index is computed from the default existingMeta
\* and vault.create started.
SaveWriteCopy(id) ==
  /\ id \in DOMAIN calls
  /\ calls[id].op \in {"draft", "publish"}
  /\ calls[id].pc = "writeMd"
  /\ LET call == calls[id]
         path == CopyPath(call)
         copy == [kind |-> "md", text |-> call.readFile, mtime |-> now]
     IN  \E fail \in FailChoices, throws \in WriteThrows(call.kind, path) :
           /\ faults' = IF fail THEN faults + 1 ELSE faults
           /\ IF fail \/ throws
              THEN /\ Return(id, "error")
                   /\ UNCHANGED vault
              ELSE /\ vault' = Put(vault, path, copy)
                   /\ IF ~UpdatesIndex(call.op)
                      THEN Return(id, "ok")
                      ELSE IF Exists(MetadataPath(call.base))
                      THEN Suspend(id, [call EXCEPT !.pc = "readMeta"])
                      ELSE Suspend(id, [call EXCEPT !.pc = "writeMeta", !.kind = "create"]
                             @@ [newMeta |-> MetaJson(UpsertedFiles(<<>>, call.fileData))])
  /\ UNCHANGED <<settings, ops, now, last, parser, deploy>>

\* JSON.parse(await vault.read(metaFile)) inside its own try: a file that
\* has gone meanwhile leaves the default { files: [], tags: [] }.
ExistingFiles(metadataPath) ==
  IF Exists(metadataPath) /\ vault[metadataPath].kind = "meta"
  THEN vault[metadataPath].files
  ELSE <<>>

\* The read of main.meta.json has resolved: upsert, sort, rebuild the tag
\* index and start vault.modify(metaFile, newMetaJson).
PublishReadMeta(id) ==
  /\ id \in DOMAIN calls
  /\ calls[id].pc = "readMeta"
  /\ LET call == calls[id]
         files == ExistingFiles(MetadataPath(call.base))
     IN  Suspend(id, [call EXCEPT !.pc = "writeMeta", !.kind = "modify"]
           @@ [newMeta |-> MetaJson(UpsertedFiles(files, call.fileData))])
  /\ UNCHANGED <<vault, settings, ops, faults, now, last, parser, deploy>>

\* The write of main.meta.json has settled.
PublishWriteMeta(id) ==
  /\ id \in DOMAIN calls
  /\ calls[id].pc = "writeMeta"
  /\ LET call == calls[id]
         path == MetadataPath(call.base)
     IN  \E fail \in FailChoices, throws \in WriteThrows(call.kind, path) :
           /\ faults' = IF fail THEN faults + 1 ELSE faults
           /\ IF fail \/ throws
              THEN /\ Return(id, "error")
                   /\ UNCHANGED vault
              ELSE /\ vault' = Put(vault, path, call.newMeta)
                   /\ Return(id, "ok")
  /\ UNCHANGED <<settings, ops, now, last, parser, deploy>>

\* ------------------------------------------------------------ rebuildAll

\* Faulty variant: every *.ast.json is deleted, the draft artifacts included.
IsPublishedArtifactName_AnyArtifact(p) == EndsWith(FileName(p), <<".ast.json">>)

\* generateAst, lines 1683-1687: the files whose delete is started.
IsPublishedArtifactName(p) ==
  /\ EndsWith(FileName(p), <<".ast.json">>)
  /\ ~EndsWith(FileName(p), <<".draft", ".ast.json">>)

FilesToDelete == {p \in DOMAIN vault : IsPublishedArtifactName(p)}

\* Faulty variant: the scan without its check of the snapshot names.
IsEligible_SnapshotsToo(file, base) == StartsWith(file, base \o <<"/">>)

\* _generateAst, lines 1714-1718: the markdown files a folder's scan
\* assembles; it returns at once for the others.
IsEligible(file, base) ==
  /\ StartsWith(file, base \o <<"/">>)
  /\ ~IsSnapshotName(file)

EligibleFiles(base) == {f \in MarkdownFiles : IsEligible(f, base)}

\* The first .then of _generateAst's chain once Promise.all has resolved, in
\* vault v: main.meta.json is looked up; if it exists its delete is
\* started, else the next .then runs at once and starts vault.create.
AfterTasks(fs, base, v) ==
  IF MetadataPath(base) \in DOMAIN v
  THEN [fs EXCEPT !.phase = "deleteMeta"]
  ELSE [fs EXCEPT !.phase = "createMeta",
                  !.newMeta = MetaJson(SortByMtimeDesc(fs.exported))]

\* Promise.all over a folder's tasks: it resolves once every task has
\* resolved, and has rejected as soon as one task did.
\* Faulty variant: the chain goes on when no artifact write is pending,
\* whatever reads are still under way.
TasksSettled_CreatesOnly(fs) == fs.creates = {}

TasksSettled(fs) == fs.reads = {} /\ fs.creates = {}

Advance(fs, base, v) ==
  IF fs.phase = "tasks" /\ TasksSettled(fs) THEN AfterTasks(fs, base, v) ELSE fs

Reject(fs) == IF fs.phase = "tasks" THEN [fs EXCEPT !.phase = "failed"] ELSE fs

\* _generateAst(base) up to its awaits: one task per eligible file, each
\* suspended in vault.read(file).
StartFolder(base, v) ==
  Advance([reads |-> {f \in DOMAIN v : IsMarkdown(f) /\ IsEligible(f, base)},
           creates |-> {},
           exported |-> <<>>,
           phase |-> "tasks",
           newMeta |-> MetaJson(<<>>)], base, v)

StartFolders(bases, v) ==
  [b \in {bases[i] : i \in 1..Len(bases)} |-> StartFolder(b, v)]

FolderOver(fs) == fs.phase \in {"done", "failed"} /\ TasksSettled(fs)

\* The call is over when every folder's chain has ended and no task is left.
SettleGenerate(id, call) ==
  IF \A b \in DOMAIN call.folds : FolderOver(call.folds[b])
  THEN /\ calls' = [i \in DOMAIN calls \ {id} |-> calls[i]]
       /\ done' = done \cup {[op |-> "generate", file |-> NoValue, base |-> NoValue,
                               result |-> IF \A b \in DOMAIN call.folds :
                                               call.folds[b].phase = "done"
                                          THEN "ok" ELSE "error"]}
  ELSE Suspend(id, call)

\* generateAst up to Promise.all(promises): the deletes are started and the
\* base folders read from the settings.  With nothing to delete the
\* folders' scans start at once.
GenerateBegin(limit) ==
  /\ MayStart(limit)
  /\ ops' = ops + 1
  /\ last' = [op |-> "generate", file |-> NoValue]
  /\ LET call == [op |-> "generate", file |-> NoValue, base |-> NoValue,
                  bases |-> BaseFolders, toDelete |-> FilesToDelete,
                  pc |-> "deleting", folds |-> <<>>,
                  prev |-> last, before |-> vault]
     IN  IF FilesToDelete = {}
         THEN SettleGenerate(NextId, [call EXCEPT !.pc = "running",
                                        !.folds = StartFolders(BaseFolders, vault)])
         ELSE Suspend(NextId, call)
  /\ UNCHANGED <<vault, settings, faults, now, parser, deploy>>

\* The deletes have settled.  If one of them failed, Promise.all rejects and
\* generateAst reports the error; the other files are gone all the same.
GenerateDeleted(id) ==
  /\ id \in DOMAIN calls
  /\ calls[id].op = "generate"
  /\ calls[id].pc = "deleting"
  /\ LET call == calls[id]
     IN  \E fail \in FailChoices :
           /\ faults' = IF fail THEN faults + 1 ELSE faults
           /\ IF fail
              THEN /\ \E kept \in call.toDelete :
                        vault' = Remove(vault, call.toDelete \ {kept})
                   /\ Return(id, "error")
              ELSE /\ vault' = Remove(vault, call.toDelete)
                   /\ SettleGenerate(id, [call EXCEPT !.pc = "running",
                        !.folds = StartFolders(call.bases, vault')])
  /\ UNCHANGED <<settings, ops, now, last, parser, deploy>>

\* A task's vault.read(file) has resolved: the text is parsed, the record
\* pushed to exportedFiles and vault.create(savePath, ...) started.
\* parseMarkdown raising rejects the task.
GenerateTaskRead(id, base, file) ==
  /\ id \in DOMAIN calls
  /\ calls[id].op = "generate"
  /\ calls[id].pc = "running"
  /\ base \in DOMAIN calls[id].folds
  /\ file \in calls[id].folds[base].reads
  /\ LET call == calls[id]
         fs == call.folds[base]
         md == vault[file]
         read == [fs EXCEPT !.reads = @ \ {file}]
         next == IF ~md.text.ok
                 THEN Reject(read)
                 ELSE [read EXCEPT
                         !.exported = Append(@, FileData(file, base, md)),
                         !.creates = @ \cup {[file |-> file,
                                             json |-> ArtifactJson(file, base, md)]}]
     IN  SettleGenerate(id, [call EXCEPT !.folds[base] = Advance(next, base, vault)])
  /\ UNCHANGED <<vault, settings, ops, faults, now, last, parser, deploy>>

\* A task's vault.create(savePath, ...) has settled.
GenerateTaskCreate(id, base, task) ==
  /\ id \in DOMAIN calls
  /\ calls[id].op = "generate"
  /\ calls[id].pc = "running"
  /\ base \in DOMAIN calls[id].folds
  /\ task \in calls[id].folds[base].creates
  /\ LET call == calls[id]
         fs == call.folds[base]
         path == SavePath(task.file)
         created == [fs EXCEPT !.creates = @ \ {task}]
     IN  \E fail \in FailChoices, throws \in WriteThrows("create", path) :
           /\ faults' = IF fail THEN faults + 1 ELSE faults
           /\ IF fail \/ throws
              THEN /\ UNCHANGED vault
                   /\ SettleGenerate(id, [call EXCEPT !.folds[base] = Reject(created)])
              ELSE /\ vault' = Put(vault, path, task.json)
                   /\ SettleGenerate(id, [call EXCEPT
                        !.folds[base] = Advance(created, base, vault')])
  /\ UNCHANGED <<settings, ops, now, last, parser, deploy>>

\* vault.delete(tfile) of the old main.meta.json has settled: the records
\* are sorted, the tag index built and vault.create(metadataPath) started.
GenerateMetaDeleted(id, base) ==
  /\ id \in DOMAIN calls
  /\ calls[id].op = "generate"
  /\ calls[id].pc = "running"
  /\ base \in DOMAIN calls[id].folds
  /\ calls[id].folds[base].phase = "deleteMeta"
  /\ LET call == calls[id]
         fs == call.folds[base]
         path == MetadataPath(base)
     IN  \E fail \in FailChoices, throws \in WriteThrows("delete", path) :
           /\ faults' = IF fail THEN faults + 1 ELSE faults
           /\ IF fail \/ throws
              THEN /\ UNCHANGED vault
                   /\ SettleGenerate(id, [call EXCEPT !.folds[base].phase = "failed"])
              ELSE /\ vault' = Remove(vault, {path})
                   /\ SettleGenerate(id, [call EXCEPT !.folds[base] =
                        [fs EXCEPT !.phase = "createMeta",
                                   !.newMeta = MetaJson(SortByMtimeDesc(fs.exported))]])
  /\ UNCHANGED <<settings, ops, now, last, parser, deploy>>

\* vault.create(metadataPath, ...) has settled.
GenerateMetaCreate(id, base) ==
  /\ id \in DOMAIN calls
  /\ calls[id].op = "generate"
  /\ calls[id].pc = "running"
  /\ base \in DOMAIN calls[id].folds
  /\ calls[id].folds[base].phase = "createMeta"
  /\ LET call == calls[id]
         fs == call.folds[base]
         path == MetadataPath(base)
     IN  \E fail \in FailChoices, throws \in WriteThrows("create", path) :
           /\ faults' = IF fail THEN faults + 1 ELSE faults
           /\ IF fail \/ throws
              THEN /\ UNCHANGED vault
                   /\ SettleGenerate(id, [call EXCEPT !.folds[base].phase = "failed"])
              ELSE /\ vault' = Put(vault, path, fs.newMeta)
                   /\ SettleGenerate(id, [call EXCEPT !.folds[base].phase = "done"])
  /\ UNCHANGED <<settings, ops, now, last, parser, deploy>>

CallIds == 1..MaxOps

Next(limit) ==
  \/ \E d \in Docs, text \in Texts : EditDocument(d, text)
  \/ \E f \in Folders : AddBaseFolder(f)
  \/ \E i \in 1..Cardinality(Folders) : RemoveBaseFolder(i)
  \/ \E file \in DOMAIN vault : DraftBegin(limit, file)
  \/ \E file \in DOMAIN vault : PublishBegin(limit, file)
  \/ \E id \in CallIds : SaveAssemble(id)
  \/ \E id \in CallIds : SaveWriteArtifact(id)
  \/ \E id \in CallIds : SaveWriteCopy(id)
  \/ \E id \in CallIds : PublishReadMeta(id)
  \/ \E id \in CallIds : PublishWriteMeta(id)
  \/ GenerateBegin(limit)
  \/ \E id \in CallIds : GenerateDeleted(id)
  \/ \E id \in CallIds, b \in Folders, f \in DOMAIN vault : GenerateTaskRead(id, b, f)
  \/ \E id \in CallIds, b \in Folders :
       \E task \in (IF id \in DOMAIN calls /\ calls[id].op = "generate"
                        /\ b \in DOMAIN calls[id].folds
                     THEN calls[id].folds[b].creates ELSE {}) :
         GenerateTaskCreate(id, b, task)
  \/ \E id \in CallIds, b \in Folders : GenerateMetaDeleted(id, b)
  \/ \E id \in CallIds, b \in Folders : GenerateMetaCreate(id, b)

\* Commands issued one after the other: each returns before the next starts.
NextSequential == Next(1)

Spec == Init /\ [][NextSequential]_vars

\* Commands issued while another is still running: the async functions are
\* not awaited by their callers, so two may be in flight together.
NextConcurrent == Next(2)

SpecConcurrent == Init /\ [][NextConcurrent]_vars

\* ------------------------------------------ publishOne on a given index

\* What main.meta.json of the base folder may hold when publishOne
\* starts: nothing (<<>>), the index a rebuildAll wrote, or text that
\* JSON.parse rejects.
CorruptIndex == [kind |-> "corrupt"]

RebuiltIndex(v, base) ==
  MetaJson(SortByMtimeDesc(
    <<FileData(DocX, base, v[DocX]), FileData(DocZ, base, v[DocZ])>>))

IndexStates(v, base) == {NoValue, RebuiltIndex(v, base), CorruptIndex}

InitIndexed ==
  /\ \E tx \in Texts, tz \in Texts, mz \in 1..2 :
       LET docs == [d \in Docs |->
                      [kind |-> "md",
                       text |-> IF d = DocX THEN tx ELSE tz,
                       mtime |-> IF d = DocX THEN 1 ELSE mz]]
       IN  \E index \in IndexStates(docs, FolderA) :
             vault = IF index = NoValue THEN docs
                     ELSE Put(docs, MetadataPath(FolderA), index)
  /\ settings = [baseFolders |-> <<FolderA>>, legacy |-> NoValue]
  /\ calls = <<>>
  /\ done = {}
  /\ ops = 0
  /\ faults = 0
  /\ now = 2
  /\ last = [op |-> "none", file |-> NoValue]
  /\ parser = ParserOff
  /\ deploy = DeployOff

\* publishOne calls, one after the other.
NextIndexed ==
  \/ \E file \in DOMAIN vault : PublishBegin(1, file)
  \/ \E id \in CallIds : SaveAssemble(id)
  \/ \E id \in CallIds : SaveWriteArtifact(id)
  \/ \E id \in CallIds : SaveWriteCopy(id)
  \/ \E id \in CallIds : PublishReadMeta(id)
  \/ \E id \in CallIds : PublishWriteMeta(id)

SpecIndexed == InitIndexed /\ [][NextIndexed]_vars

\* ------------------------------------------- the header and footer scans

\* A document text is a sequence of characters.  A key, a value and a file
\* name count as one character each, and ":" stands for the separator of a
\* key and its value.

\* The backtick, as a character of a text.
Tick == "tick"

\* md[i] of the code, i counted from 0: undefined outside the text.
At(md, i) == IF i >= 0 /\ i < Len(md) THEN md[i + 1] ELSE "undefined"

\* /[\r\n]/.test(c); of undefined it is false.
IsLineBreak(c) == c \in {"\n", "\r"}

\* md.slice(from, to), for indices that are not negative.
Slice(md, from, to) == IF to > from THEN SubSeq(md, from + 1, to) ELSE <<>>

IsSpace(c) == c \in {"\n", "\r", " ", "\t"}

\* text.trim()
RECURSIVE TrimStart(_)
TrimStart(text) ==
  IF text # <<>> /\ IsSpace(Head(text)) THEN TrimStart(Tail(text)) ELSE text

RECURSIVE TrimEnd(_)
TrimEnd(text) ==
  IF text # <<>> /\ IsSpace(text[Len(text)])
  THEN TrimEnd(SubSeq(text, 1, Len(text) - 1))
  ELSE text

Trim(text) == TrimEnd(TrimStart(text))

\* The keys and values that the texts of the model are made of.
frontmatterKey == "kanban-plugin"

KeyOrder == <<frontmatterKey, "date-format", "title">>

KeyNames == {KeyOrder[i] : i \in 1..Len(KeyOrder)}

ValueNames == {"1", "basic"}

\* The set exported by Settings.ts: the format key and the settings keys.
settingKeyLookup == {frontmatterKey, "date-format"}

\* A parsed value: kind is "object" (map holds its fields), "null",
\* "number", "undefined" (nothing was returned), "other" (YAML that is no
\* mapping: a scalar, a sequence or a syntax error) or "raise".
EmptyMap == [k \in {} |-> "1"]

Value(kind) == [kind |-> kind, map |-> EmptyMap]

Object(map) == [kind |-> "object", map |-> map]

RECURSIVE SplitOn(_, _)
SplitOn(text, sep) ==
  LET at == {i \in 1..Len(text) : text[i] = sep}
  IN  IF at = {} THEN <<text>>
      ELSE LET k == CHOOSE i \in at : \A j \in at : i <= j
           IN  <<SubSeq(text, 1, k - 1)>> \o SplitOn(SubSeq(text, k + 1, Len(text)), sep)

IsPair(item) ==
  /\ Len(item) = 3
  /\ item[1] \in KeyNames
  /\ item[2] = ":"
  /\ item[3] \in ValueNames

\* The object read from a list of key-value items; of a key given twice
\* the last value stands.
PairsObject(items) ==
  [k \in {items[i][1] : i \in 1..Len(items)} |->
     LET at == {i \in 1..Len(items) : items[i][1] = k}
     IN  items[CHOOSE i \in at : \A j \in at : j <= i][3]]

\* obsidian parseYaml: the empty text is null, lines "key: value" with
\* distinct keys are a mapping.
parseYaml(text) ==
  IF text = <<>> THEN Value("null")
  ELSE LET lines == SplitOn(text, "\n")
       IN  IF /\ \A i \in 1..Len(lines) : IsPair(lines[i])
              /\ \A i, j \in 1..Len(lines) : lines[i][1] = lines[j][1] => i = j
           THEN Object(PairsObject(lines))
           ELSE Value("other")

\* JSON.parse: an object { key: value, ... }, a number, or a SyntaxError.
JsonParse(text) ==
  IF Len(text) >= 2 /\ text[1] = "{" /\ text[Len(text)] = "}"
  THEN LET inner == SubSeq(text, 2, Len(text) - 1)
           items == IF inner = <<>> THEN <<>> ELSE SplitOn(inner, ",")
       IN  IF \A i \in 1..Len(items) : IsPair(items[i])
           THEN Object(PairsObject(items))
           ELSE Value("raise")
  ELSE IF text # <<>> /\ \A i \in 1..Len(text) : text[i] = "1"
  THEN Value("number")
  ELSE Value("raise")

\* The for loop of extractFrontmatter from index i on.
RECURSIVE FrontmatterLoop(_, _, _, _)
FrontmatterLoop(md, i, openDashCount, frontmatterStart) ==
  IF i >= Len(md) THEN Object(EmptyMap)
  ELSE IF openDashCount < 3
  THEN IF At(md, i) = "-"
       THEN FrontmatterLoop(md, i + 1, openDashCount + 1, frontmatterStart)
       ELSE Object(EmptyMap)
  ELSE LET start == IF frontmatterStart < 0 THEN i ELSE frontmatterStart
       IN  IF /\ At(md, i) = "-"
              /\ IsLineBreak(At(md, i - 1))
              /\ At(md, i + 1) = "-"
              /\ At(md, i + 2) = "-"
           THEN parseYaml(Trim(Slice(md, start, i - 1)))
           ELSE FrontmatterLoop(md, i + 1, openDashCount, start)

\* Faulty variant: the scan without its count of the opening dashes.
extractFrontmatter_NoOpening(md) == FrontmatterLoop(md, 0, 3, -1)

extractFrontmatter(md) == FrontmatterLoop(md, 0, 0, -1)

\* The for loop of extractSettingsFooter from index i down.
RECURSIVE FooterLoop(_, _, _, _, _)
FooterLoop(md, i, hasEntered, openTickCount, settingsEnd) ==
  IF i < 0 THEN Value("undefined")
  ELSE IF ~hasEntered /\ At(md, i) \in {Tick, "%", "\n", "\r"}
  THEN IF At(md, i) = Tick
       THEN IF openTickCount + 1 = 3
            THEN FooterLoop(md, i - 1, TRUE, openTickCount + 1, i - 1)
            ELSE FooterLoop(md, i - 1, FALSE, openTickCount + 1, settingsEnd)
       ELSE FooterLoop(md, i - 1, FALSE, openTickCount, settingsEnd)
  ELSE IF ~hasEntered THEN Object(EmptyMap)
  ELSE IF /\ At(md, i) = Tick
          /\ At(md, i - 1) = Tick
          /\ At(md, i - 2) = Tick
          /\ IsLineBreak(At(md, i - 3))
  THEN JsonParse(Trim(Slice(md, i + 1, settingsEnd)))
  ELSE FooterLoop(md, i - 1, hasEntered, openTickCount, settingsEnd)

\* Faulty variant: the scan taken to be inside the block from the start.
extractSettingsFooter_Entered(md) == FooterLoop(md, Len(md) - 1, TRUE, 3, Len(md))

extractSettingsFooter(md) == FooterLoop(md, Len(md) - 1, FALSE, 0, -1)

\* ------------------------------------------------- the link attachers

\* The files that links of the model's texts refer to.
NoteFoo == <<"n", "/", "Foo", ".md">>
NoteMy == <<"n", "/", "My", " ", "Note", ".md">>

\* decodeURIComponent: %20 is a space.
DecodeChar(c) == IF c = "%20" THEN " " ELSE c

decodeURIComponent(text) == [i \in 1..Len(text) |-> DecodeChar(text[i])]

\* helpers/renderMarkdown getNormalizedPath(text).root: the target decoded,
\* without its #subsection or |display suffix.
getNormalizedPath(text) ==
  LET cut == {i \in 1..Len(text) : text[i] \in {"#", "|"}}
      stop == IF cut = {} THEN Len(text) + 1
              ELSE CHOOSE i \in cut : \A j \in cut : i <= j
  IN  decodeURIComponent(SubSeq(text, 1, stop - 1))

\* metadataCache.getFirstLinkpathDest(linkpath, sourcePath): the file the
\* link path names, by its base name, its name or its path; <<>> for null.
getFirstLinkpathDest(linkpath) ==
  LET hits == {p \in DOMAIN vault :
                 \/ p = linkpath
                 \/ FileName(p) = linkpath
                 \/ IsMarkdown(p) /\ BaseName(p) = linkpath}
  IN  IF hits = {} THEN NoValue ELSE <<CHOOSE p \in hits : TRUE>>

\* A node of the tree: its type and its fileAccessor, <<>> when none was
\* attached.  A field the handler does not set is <<>>.
Node(type, accessor) == [type |-> type, fileAccessor |-> accessor]

Accessor(target, isEmbed, stats, basePath, slug) ==
  <<[target |-> target, isEmbed |-> isEmbed, stats |-> stats,
     basePath |-> basePath, slug |-> slug]>>

\* The result of a handler: the node, unless it raised.
Attached(node) == [raise |-> FALSE, node |-> node]

Raised(type) == [raise |-> TRUE, node |-> Node(type, NoValue)]

\* stateManager.getSetting('base-folder') and baseFolderLen.
BaseFolderLen == IF settings.legacy # NoValue THEN Len(settings.legacy) + 1 ELSE 0

Stat(file) == <<vault[file].mtime>>

\* The embedWikilink handler (lines 95-114): file.path is read whether or
\* not a file was found, and raises a TypeError on null.
AttachEmbedWikilink(text) ==
  IF text = <<>> THEN Attached(Node("embedWikilink", NoValue))
  ELSE LET root == getNormalizedPath(text)
           found == getFirstLinkpathDest(root)
       IN  IF found = NoValue THEN Raised("embedWikilink")
           ELSE Attached(Node("embedWikilink",
                  Accessor(root, TRUE, Stat(found[1]),
                           Substring(found[1], BaseFolderLen), NoValue)))

\* Faulty variant: the wikilink handler with the base name as the slug.
AttachWikilink_RawSlug(text) ==
  IF text = <<>> THEN Attached(Node("wikilink", NoValue))
  ELSE LET root == getNormalizedPath(text)
           found == getFirstLinkpathDest(root)
       IN  IF found = NoValue THEN Raised("wikilink")
           ELSE Attached(Node("wikilink",
                  Accessor(root, FALSE, NoValue,
                           Substring(found[1], BaseFolderLen), BaseName(found[1]))))

\* The wikilink handler (lines 115-141): file.path and file.basename are
\* read whether or not a file was found.
AttachWikilink(text) ==
  IF text = <<>> THEN Attached(Node("wikilink", NoValue))
  ELSE LET root == getNormalizedPath(text)
           found == getFirstLinkpathDest(root)
       IN  IF found = NoValue THEN Raised("wikilink")
           ELSE Attached(Node("wikilink",
                  Accessor(root, FALSE, NoValue,
                           Substring(found[1], BaseFolderLen),
                           kebabize(BaseName(found[1])))))

\* The internalMarkdownLinks callback (lines 142-172), for a link
\* (isEmbed false) and an image (isEmbed true) with this url.
AttachInternalLink(url, isEmbed) ==
  LET type == IF isEmbed THEN "image" ELSE "link"
  IN  IF url = <<>> \/ (\E i \in 1..Len(url) : url[i] = "://") \/ ~EndsWith(url, <<".md">>)
      THEN Attached(Node(type, NoValue))
      ELSE LET target == decodeURIComponent(url)
               found == getFirstLinkpathDest(target)
           IN  IF isEmbed
               THEN IF found = NoValue THEN Raised(type)
                    ELSE Attached(Node("embedLink",
                           Accessor(target, TRUE, Stat(found[1]), NoValue, NoValue)))
               ELSE Attached(Node(type,
                      Accessor(target, FALSE, NoValue, NoValue, NoValue)))

\* The markers of the four link forms: [[T]], ![[T]], [](T) and ![](T).
Openers == {"[[", "![[", "[](", "![]("}

Closer(opener) == IF opener \in {"[[", "![["} THEN "]]" ELSE ")"

Attach(opener, text) ==
  CASE opener = "![[" -> AttachEmbedWikilink(text)
    [] opener = "[[" -> AttachWikilink(text)
    [] opener = "![](" -> AttachInternalLink(text, TRUE)
    [] OTHER -> AttachInternalLink(text, FALSE)

\* fromMarkdown(md, ...) as far as the link nodes go: each opening marker
\* with its closing marker later on the line is a node, handed to its
\* handler; an opening marker without one is text.  A handler that raises
\* ends the parse.
RECURSIVE TreeFrom(_, _, _)
TreeFrom(md, i, nodes) ==
  IF i > Len(md) THEN [raise |-> FALSE, nodes |-> nodes]
  ELSE IF md[i] \notin Openers THEN TreeFrom(md, i + 1, nodes)
  ELSE LET ends == {j \in (i + 1)..Len(md) :
                      /\ md[j] = Closer(md[i])
                      /\ \A k \in (i + 1)..(j - 1) : ~IsLineBreak(md[k])}
       IN  IF ends = {} THEN TreeFrom(md, i + 1, nodes)
           ELSE LET j == CHOOSE e \in ends : \A f \in ends : e <= f
                    r == Attach(md[i], SubSeq(md, i + 1, j - 1))
                IN  IF r.raise THEN [raise |-> TRUE, nodes |-> nodes]
                    ELSE TreeFrom(md, j + 1, Append(nodes, r.node))

fromMarkdown(md) == TreeFrom(md, 1, <<>>)

\* ---------------------------------------------------------- parseMarkdown

\* Line 186: the format key's value basic is read as board.
HeaderValue(key, val) ==
  IF key = frontmatterKey /\ val = "basic" THEN "board" ELSE val

\* Faulty variant: every header key is taken for a configuration key.
IntoSettings_Always(key) == TRUE

\* Faulty variant: every header key is copied into the frontmatter.
IntoFrontmatter_Always(key) == TRUE

\* Lines 185-193: where a header key goes.
IntoSettings(key) == key = frontmatterKey \/ key \in settingKeyLookup

IntoFrontmatter(key) == key = frontmatterKey \/ key \notin settingKeyLookup

\* settings after the forEach: the footer's fields, with the header's
\* fields that go into the settings set over them.
EffectiveSettings(mdSettings, mdFrontmatter) ==
  LET moved == {k \in DOMAIN mdFrontmatter : IntoSettings(k)}
  IN  [k \in DOMAIN mdSettings \cup moved |->
         IF k \in moved THEN HeaderValue(k, mdFrontmatter[k]) ELSE mdSettings[k]]

FileFrontmatter(mdFrontmatter) ==
  [k \in {h \in DOMAIN mdFrontmatter : IntoFrontmatter(h)} |->
     HeaderValue(k, mdFrontmatter[k])]

\* parseMarkdown(stateManager, md): what it returns, or that it raised.
\* Object.keys(null) raises a TypeError; { ...mdSettings } of a number or of
\* undefined is the empty object.
ParseRaised == [pc |-> "raised"]

parseMarkdown(md) ==
  LET mdFrontmatter == extractFrontmatter(md)
      mdSettings == extractSettingsFooter(md)
      tree == fromMarkdown(md)
  IN  IF mdFrontmatter.kind = "null" \/ mdSettings.kind = "raise" \/ tree.raise
      THEN ParseRaised
      ELSE [pc |-> "done",
            settings |-> EffectiveSettings(mdSettings.map, mdFrontmatter.map),
            frontmatter |-> FileFrontmatter(mdFrontmatter.map),
            ast |-> tree.nodes]

\* The texts parseMarkdown is given: a header part, a body and a footer
\* part, or a body of links.
Maps(maxKeys) ==
  UNION {[ks -> ValueNames] : ks \in {k \in SUBSET KeyNames : Cardinality(k) <= maxKeys}}

\* The lines "\n key: value" of a mapping, in the order of KeyOrder.
RECURSIVE YamlFrom(_, _)
YamlFrom(map, i) ==
  IF i > Len(KeyOrder) THEN <<>>
  ELSE (IF KeyOrder[i] \in DOMAIN map
        THEN <<"\n", KeyOrder[i], ":", map[KeyOrder[i]]>>
        ELSE <<>>) \o YamlFrom(map, i + 1)

Yaml(map) == YamlFrom(map, 1)

\* { key: value, ... } of a mapping.
RECURSIVE JsonFrom(_, _, _)
JsonFrom(map, i, first) ==
  IF i > Len(KeyOrder) THEN <<>>
  ELSE IF KeyOrder[i] \in DOMAIN map
  THEN (IF first THEN <<>> ELSE <<",">>)
         \o <<KeyOrder[i], ":", map[KeyOrder[i]]>> \o JsonFrom(map, i + 1, FALSE)
  ELSE JsonFrom(map, i + 1, first)

Json(map) == <<"{">> \o JsonFrom(map, 1, TRUE) \o <<"}">>

Dashes == <<"-", "-", "-">>

Fence == <<Tick, Tick, Tick>>

\* How a header may open and close: not at all, with too few dashes, as it
\* should, with a closing line that goes on, or with dashes inside a line.
HeaderOpens == {<<>>, <<"-", "-">>, Dashes}

HeaderCloses ==
  {<<>>, <<"\n">> \o Dashes, <<"\n">> \o Dashes \o <<"t">>,
   <<"\n">> \o Dashes \o <<"-">>, Dashes}

HeaderParts ==
  {open \o Yaml(map) \o close :
     open \in HeaderOpens, map \in Maps(MaxHeaderKeys), close \in HeaderCloses}

\* Nothing, a line of text, or a fenced code block and a line of text.
Bodies ==
  {<<>>, <<"\n", "t">>,
   <<"\n">> \o Fence \o <<"\n", "t", "\n">> \o Fence \o <<"\n", "t">>}

\* The footer's opening fence, on a line of its own or not, and what
\* follows its closing fence: nothing, the comment's end, or text.
FooterOpens == {<<"\n">> \o Fence, Fence}

FooterCloses ==
  {<<"\n">> \o Fence, <<"\n">> \o Fence \o <<"\n", "%", "%">>,
   <<"\n">> \o Fence \o <<"t">>}

FooterParts ==
  {<<>>} \cup
  {open \o <<"\n">> \o Json(map) \o close :
     open \in FooterOpens, map \in Maps(MaxFooterKeys), close \in FooterCloses}

ScanDocuments ==
  {header \o body \o footer :
     header \in HeaderParts, body \in Bodies, footer \in FooterParts}

\* The targets of the links: a file that exists, one that does not, one
\* with a subsection, one with an encoded space, none, and a web address.
WikiTargets == {<<"Foo">>, <<"Bar">>, <<"Foo", "#", "h">>, <<"My", "%20", "Note">>, <<>>}

UrlTargets ==
  {<<"Foo", ".md">>, <<"Bar", ".md">>, <<"My", "%20", "Note", ".md">>,
   <<"http", "://", "Foo", ".md">>, <<"Foo">>}

Spans ==
  {<<o>> \o t \o <<Closer(o)>> : o \in {"[[", "![["}, t \in WikiTargets}
  \cup {<<o>> \o t \o <<Closer(o)>> : o \in {"[](", "![]("}, t \in UrlTargets}
  \cup {<<"[[", "Foo">>}

RECURSIVE SpanLists(_)
SpanLists(n) ==
  IF n = 0 THEN {<<>>}
  ELSE {<<>>} \cup {s \o <<" ">> \o rest : s \in Spans, rest \in SpanLists(n - 1)}

LinkDocuments == {<<"t", " ">> \o body : body \in SpanLists(MaxLinks)}

\* What may follow a footer's closing fence to the end of the text: white
\* space of every kind, and a stray backtick on a line of its own.
Trailers ==
  {<<" ">>, <<"\t">>, <<"\n">>, <<"\r", "\n">>, <<"\n", " ", "\n">>,
   <<"\n", Tick>>}

\* Closing fences: whole, followed by a trailer, or with its backticks on
\* more than one line.
TrailingCloses ==
  {<<"\n">> \o Fence \o trailer : trailer \in Trailers}
  \cup {<<"\n", Tick, Tick, "\n", Tick>>, <<"\n", Tick, "\n", Tick, "\n", Tick>>}

TrailingDocuments ==
  {body \o <<"\n">> \o Fence \o <<"\n">> \o Json(map) \o close :
     body \in Bodies, map \in Maps(MaxFooterKeys), close \in TrailingCloses}

Documents == ScanDocuments \cup LinkDocuments \cup TrailingDocuments

\* The vault a document is parsed in, and the legacy base folder that the
\* link handlers read.
InitParse ==
  /\ vault = [d \in Docs \cup {NoteFoo, NoteMy} |->
                [kind |-> "md", text |-> TextTagT, mtime |-> 1]]
  /\ settings = [baseFolders |-> <<FolderA>>, legacy |-> <<"n">>]
  /\ calls = <<>>
  /\ done = {}
  /\ ops = 0
  /\ faults = 0
  /\ now = 1
  /\ last = [op |-> "none", file |-> NoValue]
  /\ parser \in {[pc |-> "ready", md |-> md] : md \in Documents}
  /\ deploy = DeployOff

\* One call of parseMarkdown(stateManager, md), from its first line to its
\* return or to the error it raises.
ParseMarkdown ==
  /\ parser.pc = "ready"
  /\ parser' = [md |-> parser.md] @@ parseMarkdown(parser.md)
  /\ UNCHANGED <<vault, settings, calls, done, ops, faults, now, last, deploy>>

NextParse == ParseMarkdown

SpecParse == InitParse /\ [][NextParse]_vars

\* ------------------------------------------------------ preview resolution

\* parseFragment(stateManager, md): fromMarkdown with the same extensions
\* and no header or footer scan.
parseFragment(md) == fromMarkdown(md)

\* (fragment.children[0] as any).children[0]: the first inline node of the
\* fragment's first paragraph, a link node when the fragment starts with
\* one and a text node otherwise.
FirstInline(md, tree) ==
  IF /\ md # <<>>
     /\ md[1] \in Openers
     /\ \E j \in 2..Len(md) :
          md[j] = Closer(md[1]) /\ \A k \in 2..(j - 1) : ~IsLineBreak(md[k])
  THEN tree.nodes[1]
  ELSE Node("text", NoValue)

\* The preview of a record (Settings.ts 1731-1747 and 1846-1862, the same
\* lines in both assemblers): the path of the file that the accessor of
\* the fragment's first inline node names, relative to the base folder
\* when it lies inside.  preview is the frontmatter's field, <<>> when the
\* frontmatter has none; the result's preview is <<>> for undefined.
ResolvePreview(preview, baseFolder) ==
  IF preview = NoValue THEN [raise |-> FALSE, preview |-> NoValue]
  ELSE LET fragment == parseFragment(preview)
       IN  IF fragment.raise THEN [raise |-> TRUE, preview |-> NoValue]
           ELSE LET first == FirstInline(preview, fragment)
                    target == IF first.fileAccessor = NoValue THEN NoValue
                              ELSE first.fileAccessor[1].target
                    imageFile == IF target = NoValue THEN NoValue
                                 ELSE getFirstLinkpathDest(target)
                    prefix == baseFolder \o <<"/">>
                IN  [raise |-> FALSE,
                     preview |->
                       IF imageFile = NoValue THEN NoValue
                       ELSE IF StartsWith(imageFile[1], prefix)
                       THEN Substring(imageFile[1], Len(prefix))
                       ELSE imageFile[1]]

\* The preview fields of the model: none, text, one link, text and a
\* link, two links.
PreviewFields ==
  {NoValue, <<"t">>}
  \cup Spans
  \cup {<<"t", " ">> \o span : span \in Spans}
  \cup (SpanLists(MaxLinks) \ {<<>>})

\* The base folders a document is assembled for: one that holds the
\* linked files and one that does not.
PreviewBases == {FolderA, <<"n">>}

InitPreview ==
  /\ vault = [d \in Docs \cup {NoteFoo, NoteMy} |->
                [kind |-> "md", text |-> TextTagT, mtime |-> 1]]
  /\ settings = [baseFolders |-> <<FolderA, <<"n">>>>, legacy |-> NoValue]
  /\ calls = <<>>
  /\ done = {}
  /\ ops = 0
  /\ faults = 0
  /\ now = 1
  /\ last = [op |-> "none", file |-> NoValue]
  /\ parser \in {[pc |-> "preview", md |-> field, base |-> base] :
                    field \in PreviewFields, base \in PreviewBases}
  /\ deploy = DeployOff

\* The preview lines of one assembly, from the test of the frontmatter's
\* field to the value of preview or to the error raised.
AssemblePreview ==
  /\ parser.pc = "preview"
  /\ LET r == ResolvePreview(parser.md, parser.base)
     IN  parser' = [pc |-> IF r.raise THEN "raised" ELSE "assembled",
                    md |-> parser.md, base |-> parser.base, preview |-> r.preview]
  /\ UNCHANGED <<vault, settings, calls, done, ops, faults, now, last, deploy>>

NextPreview == AssemblePreview

SpecPreview == InitPreview /\ [][NextPreview]_vars

\* ---------------------------------------------------------- publishChanges

\* The callback of the PublishModal (unnamed/part_001, lines 429-492), cut
\* at its awaits.  deploy holds the selected folders, each with its path
\* and whether its four Cloudflare parameters are set, the index of the
\* folder at work, the command or request awaited (pc) and the polls made.
\* pushed, broken and triggered are history: the folders whose git push
\* succeeded, those where a git step failed or no origin was found, and
\* those triggerCloudflareDeployment was called for.
FolderConfigs == {[path |-> f, cloudflare |-> c] : f \in Folders, c \in BOOLEAN}

RECURSIVE Selections(_)
Selections(n) ==
  IF n = 0 THEN {<<>>}
  ELSE {<<>>} \cup
       {sel \in {<<c>> \o rest : c \in FolderConfigs, rest \in Selections(n - 1)} :
          \A i, j \in 1..Len(sel) : sel[i].path = sel[j].path => i = j}

InitPublish ==
  /\ vault = [d \in Docs |-> [kind |-> "md", text |-> TextTagT, mtime |-> 1]]
  /\ settings = [baseFolders |-> <<FolderA, FolderS>>, legacy |-> NoValue]
  /\ calls = <<>>
  /\ done = {}
  /\ ops = 0
  /\ faults = 0
  /\ now = 1
  /\ last = [op |-> "none", file |-> NoValue]
  /\ parser = ParserOff
  /\ deploy \in {[pc |-> "selected", selected |-> sel, i |-> 0, polls |-> 0,
                  pushed |-> {}, broken |-> {}, triggered |-> {}] :
                   sel \in Selections(MaxSelected)}

Folder == deploy.selected[deploy.i]

\* The loop goes on to the next selected folder, or ends.
NextFolder(d) ==
  IF d.i < Len(d.selected)
  THEN [d EXCEPT !.i = @ + 1, !.pc = "add", !.polls = 0]
  ELSE [d EXCEPT !.pc = "finished"]

\* The outer catch block after a git step failed.
GitFailed(d) == NextFolder([d EXCEPT !.broken = @ \cup {d.selected[d.i].path}])

Awaiting(pc) == deploy.pc = pc

DeployStep(d) ==
  /\ deploy' = d
  /\ UNCHANGED <<vault, settings, calls, done, ops, faults, now, last, parser>>

\* The modal hands over the selection: git add -A is run for the first.
PublishSelected ==
  /\ Awaiting("selected")
  /\ DeployStep(NextFolder(deploy))

\* git add -A has ended.
GitAdd ==
  /\ Awaiting("add")
  /\ \E ok \in BOOLEAN :
       DeployStep(IF ok THEN [deploy EXCEPT !.pc = "status"] ELSE GitFailed(deploy))

\* git status --porcelain has ended: with changes the commit is run.
GitStatus ==
  /\ Awaiting("status")
  /\ \E ok \in BOOLEAN, dirty \in BOOLEAN :
       DeployStep(IF ~ok THEN GitFailed(deploy)
                  ELSE IF dirty THEN [deploy EXCEPT !.pc = "commit"]
                  ELSE [deploy EXCEPT !.pc = "remote"])

\* git commit has ended.
GitCommit ==
  /\ Awaiting("commit")
  /\ \E ok \in BOOLEAN :
       DeployStep(IF ok THEN [deploy EXCEPT !.pc = "remote"] ELSE GitFailed(deploy))

\* git remote get-url origin has ended: without an origin the folder is
\* done, committed only.
GitRemote ==
  /\ Awaiting("remote")
  /\ \E hasOrigin \in BOOLEAN :
       DeployStep(IF hasOrigin THEN [deploy EXCEPT !.pc = "push"] ELSE GitFailed(deploy))

\* Faulty variant: the deployment follows the push whether it succeeded or not.
DeploysAfterPush_EvenFailed(pushed, folder) == folder.cloudflare

\* Lines 463-464: after the awaited push, with the Cloudflare parameters set.
DeploysAfterPush(pushed, folder) == pushed /\ folder.cloudflare

\* git push origin main has ended.
GitPush ==
  /\ Awaiting("push")
  /\ \E ok \in BOOLEAN :
       LET d == IF ok THEN [deploy EXCEPT !.pushed = @ \cup {Folder.path}]
                ELSE [deploy EXCEPT !.broken = @ \cup {Folder.path}]
       IN  DeployStep(IF DeploysAfterPush(ok, Folder) THEN [d EXCEPT !.pc = "fetch"]
                      ELSE NextFolder(d))

\* git fetch in the web repository has ended.
GitFetch ==
  /\ Awaiting("fetch")
  /\ \E ok \in BOOLEAN :
       DeployStep(IF ok THEN [deploy EXCEPT !.pc = "revParse"] ELSE NextFolder(deploy))

\* git rev-parse main has ended: triggerCloudflareDeployment is called and
\* posts the build.
GitRevParse ==
  /\ Awaiting("revParse")
  /\ \E ok \in BOOLEAN :
       DeployStep(IF ok THEN [deploy EXCEPT !.pc = "trigger",
                                            !.triggered = @ \cup {Folder.path}]
                  ELSE NextFolder(deploy))

\* cloudflare.ts, lines 21-31: the answer to the build trigger.
CloudflareTriggered ==
  /\ Awaiting("trigger")
  /\ \E success \in BOOLEAN :
       DeployStep(IF success THEN [deploy EXCEPT !.pc = "poll"] ELSE NextFolder(deploy))

\* cloudflare.ts, lines 36-55: the answer to a poll.  The build has
\* succeeded, has another outcome, or is still running; after the last
\* poll the deployment has timed out.
CloudflarePolled ==
  /\ Awaiting("poll")
  /\ \E outcome \in {"success", "failure", "null"} :
       DeployStep(IF outcome = "null" /\ deploy.polls + 1 < MaxPolls
                  THEN [deploy EXCEPT !.polls = @ + 1]
                  ELSE NextFolder(deploy))

NextPublish ==
  \/ PublishSelected
  \/ GitAdd
  \/ GitStatus
  \/ GitCommit
  \/ GitRemote
  \/ GitPush
  \/ GitFetch
  \/ GitRevParse
  \/ CloudflareTriggered
  \/ CloudflarePolled

SpecPublish == InitPublish /\ [][NextPublish]_vars

\* ================================================================ claims

\* The main.meta.json files of the vault.
MetaFiles == {p \in DOMAIN vault : vault[p].kind = "meta"}

Range(seq) == {seq[i] : i \in 1..Len(seq)}

\* The relative path publishOne and rebuildAll give the artifact of file.
RelativeArtifact(file, base) == Substring(SavePath(file), StartLen(base))

\* The step is taken by a running rebuildAll: its call record changes.
GenerateStep ==
  \E id \in DOMAIN calls :
    /\ calls[id].op = "generate"
    /\ (id \notin DOMAIN calls' \/ calls'[id] # calls[id])

SameFile(p) ==
  /\ (p \in DOMAIN vault) = (p \in DOMAIN vault')
  /\ p \in DOMAIN vault => vault'[p] = vault[p]

\* C1: two publishOne calls running concurrently on different documents of
\* one base folder lose no upsert.  Stated on the final state: when every
\* user action so far was a publishOne that returned successfully and no
\* vault operation failed, the index of each call's base folder holds the
\* record of the document it published.
C1_NoLostUpsert ==
  (/\ Idle
   /\ faults = 0
   /\ \A r \in done : r.op = "publish" /\ r.result = "ok")
  => \A r \in done :
       /\ Exists(MetadataPath(r.base))
       /\ \E f \in Range(vault[MetadataPath(r.base)].files) :
            f.path = RelativeArtifact(r.file, r.base)

\* C2: the tag index of every main.meta.json matches its file list: each
\* record is listed under each of its tags, and each entry under a tag has
\* the path of a record carrying that tag.
C2_TagIndexMatchesFiles ==
  \A m \in MetaFiles :
    LET files == Range(vault[m].files)
        tags == Range(vault[m].tags)
    IN  /\ \A r \in files : \A t \in Range(r.tags) :
             \E g \in tags : g.name = t /\ \E e \in Range(g.entries) : e.path = r.path
        /\ \A g \in tags : \A e \in Range(g.entries) :
             \E r \in files : r.path = e.path /\ g.name \in Range(r.tags)
        /\ \A g \in tags : g.entries # <<>>

\* An index with two records sharing a tag, one of them carrying a second
\* tag, as left by a publishOne that returned.
C2_Witness ==
  /\ \E r \in done : r.op = "publish" /\ r.result = "ok"
  /\ \E m \in MetaFiles :
       /\ Len(vault[m].files) = 2
       /\ Len(vault[m].tags) = 2
       /\ \E g \in Range(vault[m].tags) : Len(g.entries) = 2

UniquePaths(files) ==
  \A i, j \in 1..Len(files) : files[i].path = files[j].path => i = j

\* C3: after a publishOne has written main.meta.json (the index it read was
\* absent, or written by rebuildAll or by an earlier publishOne) the file
\* list holds at most one record per path.
C3_OneRecordPerPath ==
  [][\A id \in DOMAIN calls :
       (/\ calls[id].op = "publish"
        /\ calls[id].pc = "writeMeta"
        /\ id \notin DOMAIN calls'
        /\ vault' # vault)
       => UniquePaths(vault'[MetadataPath(calls[id].base)].files)]_vars

\* C4: a step of draftOne leaves every main.meta.json as it was, and
\* changes no file but <stem>.draft.ast.json and <stem>.draft.md.
C4_DraftLeavesIndexAlone ==
  [][\A id \in DOMAIN calls :
       (/\ calls[id].op = "draft"
        /\ (id \notin DOMAIN calls' \/ calls'[id] # calls[id]))
       => /\ \A b \in Folders : SameFile(MetadataPath(b))
          /\ \A p \in DOMAIN vault \cup DOMAIN vault' :
               \/ SameFile(p)
               \/ p = Stem(calls[id].file) \o <<".draft", ".ast.json">>
               \/ p = Stem(calls[id].file) \o <<".draft", ".md">>]_vars

\* A draftOne has returned successfully on a document already published,
\* whose record is in the index.
C4_Witness ==
  /\ \E r \in done : r.op = "draft" /\ r.result = "ok" /\ r.file = DocX
  /\ Exists(Stem(DocX) \o <<".draft", ".ast.json">>)
  /\ Exists(Stem(DocX) \o <<".draft", ".md">>)
  /\ Exists(MetadataPath(FolderA))
  /\ \E f \in Range(vault[MetadataPath(FolderA)].files) :
       f.path = RelativeArtifact(DocX, FolderA)

C6_PublishedArtifactIndexed ==
  Idle =>
    /\ \A b \in Range(BaseFolders) : \A p \in DOMAIN vault :
         (IsPublishedArtifactName(p) /\ StartsWith(p, b \o <<"/">>))
         => /\ Exists(MetadataPath(b))
            /\ \E f \in Range(vault[MetadataPath(b)].files) :
                 f.path = Substring(p, StartLen(b))
    /\ \A m \in MetaFiles : \A f \in Range(vault[m].files) :
         ~EndsWith(f.path, <<".draft", ".ast.json">>)

\* C7: when a rebuildAll returns and no vault operation has failed, every
\* eligible document that parses has its artifact, and its base folder's
\* main.meta.json has been rewritten with its current record, also when
\* another document of the folder failed to parse.
C7_BadDocumentDoesNotAbort ==
  [][\A id \in DOMAIN calls :
       (/\ calls[id].op = "generate"
        /\ calls[id].pc = "running"
        /\ id \notin DOMAIN calls'
        /\ faults' = 0)
       => \A b \in Range(calls[id].bases) : \A f \in EligibleFiles(b) :
            vault[f].text.ok
            => /\ SavePath(f) \in DOMAIN vault'
               /\ MetadataPath(b) \in DOMAIN vault'
               /\ \E r \in Range(vault'[MetadataPath(b)].files) :
                    r.name = FileName(f) /\ r.mtime = vault[f].mtime]_vars

IsDraftFile(p) ==
  \/ EndsWith(FileName(p), <<".draft", ".ast.json">>)
  \/ EndsWith(FileName(p), <<".draft", ".md">>)

\* C8: a step of rebuildAll leaves every *.draft.ast.json and every
\* *.draft.md in place with its content.
C8_RebuildKeepsDrafts ==
  [][GenerateStep => \A p \in DOMAIN vault : IsDraftFile(p) => SameFile(p)]_vars

\* A rebuildAll that had published artifacts to delete is past its deletes,
\* and the draft pair written before it is in the vault.
C8_Witness ==
  /\ \E id \in DOMAIN calls :
       /\ calls[id].op = "generate"
       /\ calls[id].pc = "running"
       /\ calls[id].toDelete # {}
  /\ Exists(Stem(DocX) \o <<".draft", ".ast.json">>)
  /\ Exists(Stem(DocX) \o <<".draft", ".md">>)

\* C9: a step of rebuildAll leaves in place every *.ast.json that lies
\* outside all the base folders the run was started with.
C9_DeletesOnlyUnderRoots ==
  [][\A id \in DOMAIN calls :
       (/\ calls[id].op = "generate"
        /\ (id \notin DOMAIN calls' \/ calls'[id] # calls[id]))
       => \A p \in DOMAIN vault :
            (/\ IsPublishedArtifactName(p)
             /\ \A b \in Range(calls[id].bases) : ~StartsWith(p, b \o <<"/">>))
            => SameFile(p)]_vars

\* C10: rebuildAll runs no task for a document named *.draft.md or
\* *.published.md: it reads none, creates no artifact for one and puts no
\* record of one into the index it writes.
C10_SnapshotsExcluded ==
  \A id \in DOMAIN calls :
    calls[id].op = "generate" =>
      \A b \in DOMAIN calls[id].folds :
        LET fs == calls[id].folds[b]
        IN  /\ \A f \in fs.reads : ~IsSnapshotName(f)
            /\ \A t \in fs.creates : ~IsSnapshotName(t.file)
            /\ \A r \in Range(fs.exported) : ~IsSnapshotName(r.name)
            /\ \A r \in Range(fs.newMeta.files) : ~IsSnapshotName(r.name)

\* A rebuildAll has assembled both source documents of a base folder that
\* also holds a draft and a published snapshot copy.
C10_Witness ==
  /\ Exists(Stem(DocX) \o <<".draft", ".md">>)
  /\ Exists(Stem(DocX) \o <<".published", ".md">>)
  /\ \E id \in DOMAIN calls :
       /\ calls[id].op = "generate"
       /\ FolderA \in DOMAIN calls[id].folds
       /\ Len(calls[id].folds[FolderA].exported) = 2
       /\ calls[id].folds[FolderA].phase = "createMeta"

\* The published artifacts of a vault, with their content.
Artifacts(v) == [p \in {q \in DOMAIN v : IsPublishedArtifactName(q)} |-> v[p]]

\* A main.meta.json with the order of its records, of its tags and of the
\* entries under each tag forgotten.
NormalMeta(m) ==
  [files |-> Range(m.files),
   tags |-> {[name |-> g.name, entries |-> Range(g.entries)] : g \in Range(m.tags)}]

Indexes(v) == [p \in {q \in DOMAIN v : v[q].kind = "meta"} |-> NormalMeta(v[p])]

\* C11: rebuildAll is idempotent.  When a rebuildAll returns whose
\* preceding user action was a rebuildAll too (no document and no setting
\* has changed in between) and no vault operation has failed, the published
\* artifacts and the normalised main.meta.json files are those the first
\* run left.
C11_RebuildIdempotent ==
  [][\A id \in DOMAIN calls :
       (/\ calls[id].op = "generate"
        /\ calls[id].prev.op = "generate"
        /\ id \notin DOMAIN calls'
        /\ faults' = 0)
       => /\ Artifacts(vault') = Artifacts(calls[id].before)
          /\ Indexes(vault') = Indexes(calls[id].before)]_vars

\* The content of a file in a vault; of a raw-text copy, its text.
ContentIn(v, p) ==
  IF p \notin DOMAIN v THEN NoValue
  ELSE IF v[p].kind = "md" THEN v[p].text
  ELSE v[p]

\* C12: publishOne is idempotent.  When a publishOne(d) returns whose
\* preceding user action was a publishOne(d) too and no vault operation has
\* failed, <stem>.ast.json, <stem>.published.md and the base folder's
\* main.meta.json are as the first call left them.
C12_PublishIdempotent ==
  [][\A id \in DOMAIN calls :
       (/\ calls[id].op = "publish"
        /\ calls[id].prev = [op |-> "publish", file |-> calls[id].file]
        /\ id \notin DOMAIN calls'
        /\ faults' = 0)
       => \A p \in {ArtifactPath(calls[id]), CopyPath(calls[id]),
                    MetadataPath(calls[id].base)} :
            ContentIn(vault', p) = ContentIn(calls[id].before, p)]_vars

\* The second of two publishOne calls on one document in a row is about to
\* rewrite the index the first one wrote.
C12_Witness ==
  /\ faults = 0
  /\ \E id \in DOMAIN calls :
       /\ calls[id].op = "publish"
       /\ calls[id].prev = [op |-> "publish", file |-> calls[id].file]
       /\ calls[id].pc = "writeMeta"
       /\ calls[id].kind = "modify"
       /\ \E r \in done : r.op = "publish" /\ r.file = calls[id].file /\ r.result = "ok"

\* A document whose body is one link: text, the link, a space.
OneLink(opener, target) ==
  <<"t", " ", opener>> \o target \o <<Closer(opener), " ">>

\* The target as the accessor is to carry it.
NormalTarget(opener, target) ==
  IF opener \in {"[[", "![["} THEN getNormalizedPath(target)
  ELSE decodeURIComponent(target)

IsEmbedOpener(opener) == opener \in {"![[", "![]("}

InternalTargets(opener) ==
  IF opener \in {"[[", "![["} THEN WikiTargets \ {<<>>}
  ELSE {t \in UrlTargets : EndsWith(t, <<".md">>) /\ t[2] # "://"}

\* C13: a dangling reference does not abort parsing.  Once a document with
\* one link of any of the four forms whose target resolves to no file has
\* been parsed, the parse has completed and the link's node carries a
\* FileAccessor with the normalised target, the embed flag, and no stats,
\* base path or slug.
C13_DanglingDoesNotAbort ==
  \A opener \in Openers : \A target \in InternalTargets(opener) :
    (/\ parser.pc # "ready"
     /\ parser.md = OneLink(opener, target)
     /\ getFirstLinkpathDest(NormalTarget(opener, target)) = NoValue)
    => /\ parser.pc = "done"
       /\ Len(parser.ast) = 1
       /\ parser.ast[1].fileAccessor =
            Accessor(NormalTarget(opener, target), IsEmbedOpener(opener),
                     NoValue, NoValue, NoValue)

\* C14: wikilink resolution.  In every parsed document, a wikilink node
\* with an accessor has isEmbed false and the kebab-case form of the base
\* name of the file its target resolves to as slug, and an embed wikilink
\* node has isEmbed true; [[Foo]] alone gives the slug foo, and a link to
\* "My Note" the slug my-note.
C14_WikilinkResolution ==
  parser.pc = "done" =>
    /\ \A i \in 1..Len(parser.ast) :
         LET node == parser.ast[i]
         IN  node.fileAccessor # NoValue =>
               LET fa == node.fileAccessor[1]
                   found == getFirstLinkpathDest(fa.target)
               IN  /\ node.type = "wikilink" =>
                        /\ ~fa.isEmbed
                        /\ found # NoValue
                        /\ fa.slug = kebabize(BaseName(found[1]))
                   /\ node.type = "embedWikilink" => fa.isEmbed
    /\ \A target \in WikiTargets :
         getFirstLinkpathDest(getNormalizedPath(target)) # NoValue =>
           /\ parser.md = OneLink("[[", target) =>
                /\ Len(parser.ast) = 1
                /\ parser.ast[1].type = "wikilink"
                /\ parser.ast[1].fileAccessor # NoValue
           /\ parser.md = OneLink("![[", target) =>
                /\ Len(parser.ast) = 1
                /\ parser.ast[1].type = "embedWikilink"
                /\ parser.ast[1].fileAccessor # NoValue
    /\ parser.md = OneLink("[[", <<"Foo">>) =>
         parser.ast[1].fileAccessor[1].slug = <<"foo">>
    /\ parser.md = OneLink("[[", <<"My", "%20", "Note">>) =>
         parser.ast[1].fileAccessor[1].slug = <<"my", "-", "note">>

\* A document with [[Foo]] and ![[Foo]] has been parsed.
C14_Witness ==
  /\ parser.pc = "done"
  /\ parser.md = <<"t", " ", "[[", "Foo", "]]", " ", "![[", "Foo", "]]", " ">>
  /\ Len(parser.ast) = 2

\* The text begins with three dashes.
HasOpening(md) == Len(md) >= 3 /\ SubSeq(md, 1, 3) = Dashes

\* A line boundary and three dashes at i, after the opening dashes.
ClosingAt(md, i) ==
  /\ i > 4
  /\ i + 2 <= Len(md)
  /\ IsLineBreak(md[i - 1])
  /\ SubSeq(md, i, i + 2) = Dashes

HasClosing(md) == \E i \in 1..Len(md) : ClosingAt(md, i)

\* C15: extractFrontmatter returns a non-empty mapping only if the text
\* begins with three dashes and a line boundary followed by three dashes
\* comes later; in every other case it returns the empty mapping, it does
\* not raise, and the parsed document has no frontmatter and no setting
\* but the footer's.
C15_HeaderOnlyBetweenDelimiters ==
  LET header == extractFrontmatter(parser.md)
      framed == HasOpening(parser.md) /\ HasClosing(parser.md)
  IN  /\ (header.kind = "object" /\ header.map # EmptyMap) => framed
      /\ ~framed => header = Object(EmptyMap)
      /\ (~framed /\ parser.pc = "done") =>
           /\ parser.frontmatter = EmptyMap
           /\ parser.settings = extractSettingsFooter(parser.md).map

\* A document with its opening dashes and a key but no closing line has
\* been parsed.
C15_Witness ==
  /\ parser.pc = "done"
  /\ HasOpening(parser.md)
  /\ ~HasClosing(parser.md)
  /\ \E i \in 1..Len(parser.md) : parser.md[i] \in KeyNames
  /\ parser.frontmatter = EmptyMap

\* Where three backticks in a row start.
FenceStarts(md) == {i \in 1..(Len(md) - 2) : SubSeq(md, i, i + 2) = Fence}

Greatest(indices) == CHOOSE i \in indices : \A j \in indices : j <= i

\* The fences before the closing fence, which is the last of the text.
OpeningFences(md) == {i \in FenceStarts(md) : i + 3 <= Greatest(FenceStarts(md))}

\* The footer's opening fence, the last one before the closing fence, is
\* at the start of the text or follows a character that is no line boundary.
HasGluedFooter(md) ==
  /\ FenceStarts(md) # {}
  /\ OpeningFences(md) # {}
  /\ ~IsLineBreak(At(md, Greatest(OpeningFences(md)) - 2))

\* C16: for a parsed document whose footer's opening fence is not preceded
\* by a line boundary, extractSettingsFooter returns empty: no parsed value
\* and no error.
C16_GluedFenceGivesEmpty ==
  (parser.pc # "ready" /\ HasGluedFooter(parser.md)) =>
    LET footer == extractSettingsFooter(parser.md)
    IN  footer.kind \in {"object", "undefined"} /\ footer.map = EmptyMap

\* The header and the footer of a parsed document, when both are mappings.
HeaderOf(md) == extractFrontmatter(md).map

FooterOf(md) == extractSettingsFooter(md).map

\* C17 as stated: for a key in both blocks the effective value is the
\* header's when the key is a recognized configuration key and the footer's
\* otherwise, and a key in the footer alone keeps the footer's value.
C17_HeaderOverridesRecognized ==
  parser.pc = "done" =>
    /\ \A k \in DOMAIN HeaderOf(parser.md) \cap DOMAIN FooterOf(parser.md) :
         parser.settings[k] = IF k \in settingKeyLookup
                              THEN HeaderOf(parser.md)[k]
                              ELSE FooterOf(parser.md)[k]
    /\ \A k \in DOMAIN FooterOf(parser.md) \ DOMAIN HeaderOf(parser.md) :
         parser.settings[k] = FooterOf(parser.md)[k]

\* C17 as amended: the same, but the header's value of the format key
\* kanban-plugin is read as board when it is basic.
C17_HeaderOverridesRecognizedBasicAsBoard ==
  parser.pc = "done" =>
    /\ \A k \in DOMAIN HeaderOf(parser.md) \cap DOMAIN FooterOf(parser.md) :
         parser.settings[k] =
           IF k \notin settingKeyLookup THEN FooterOf(parser.md)[k]
           ELSE IF k = frontmatterKey /\ HeaderOf(parser.md)[k] = "basic" THEN "board"
           ELSE HeaderOf(parser.md)[k]
    /\ \A k \in DOMAIN FooterOf(parser.md) \ DOMAIN HeaderOf(parser.md) :
         parser.settings[k] = FooterOf(parser.md)[k]

\* A parsed document with a recognized key in both blocks, the values
\* differing: the header's has won.
C17_Witness ==
  /\ parser.pc = "done"
  /\ "date-format" \in DOMAIN HeaderOf(parser.md) \cap DOMAIN FooterOf(parser.md)
  /\ HeaderOf(parser.md)["date-format"] # FooterOf(parser.md)["date-format"]
  /\ parser.settings["date-format"] = HeaderOf(parser.md)["date-format"]

\* The header's field k has not gone into the effective configuration:
\* the key is not there, or it is the footer's.
NotFromHeader(k) ==
  k \in DOMAIN parser.settings =>
    /\ k \in DOMAIN FooterOf(parser.md)
    /\ parser.settings[k] = FooterOf(parser.md)[k]

\* C18 as stated: every header key of the recognized set is in the
\* effective configuration and not in the frontmatter, and every other
\* header key is in the frontmatter and not in the effective configuration.
C18_HeaderKeysPartitioned ==
  parser.pc = "done" =>
    \A k \in DOMAIN HeaderOf(parser.md) :
      IF k \in settingKeyLookup
      THEN k \in DOMAIN parser.settings /\ k \notin DOMAIN parser.frontmatter
      ELSE k \in DOMAIN parser.frontmatter /\ NotFromHeader(k)

\* C18 as amended: the same for every header key but the format key
\* kanban-plugin, which goes into both.
C18_HeaderKeysPartitionedButFormatKey ==
  parser.pc = "done" =>
    \A k \in DOMAIN HeaderOf(parser.md) :
      IF k = frontmatterKey
      THEN k \in DOMAIN parser.settings /\ k \in DOMAIN parser.frontmatter
      ELSE IF k \in settingKeyLookup
      THEN k \in DOMAIN parser.settings /\ k \notin DOMAIN parser.frontmatter
      ELSE k \in DOMAIN parser.frontmatter /\ NotFromHeader(k)

\* A parsed document whose header has a recognized key and another one.
C18_Witness ==
  /\ parser.pc = "done"
  /\ DOMAIN HeaderOf(parser.md) = {"date-format", "title"}
  /\ DOMAIN parser.frontmatter = {"title"}
  /\ "date-format" \in DOMAIN parser.settings

\* A line of exactly three dashes at i, after the opening dashes.
ExactClosingAt(md, i) ==
  /\ ClosingAt(md, i)
  /\ (i + 3 <= Len(md) => IsLineBreak(md[i + 3]))

\* C20: the header ends only at a line of exactly three dashes.  A parsed
\* document with no such line has no header: extractFrontmatter returns
\* the empty mapping and no header field reaches the frontmatter.
C20_ClosingLineIsExact ==
  (/\ parser.pc # "ready"
   /\ ~\E i \in 1..Len(parser.md) : ExactClosingAt(parser.md, i))
  => /\ extractFrontmatter(parser.md) = Object(EmptyMap)
     /\ parser.pc = "done" => parser.frontmatter = EmptyMap

\* C19: in publishChanges the Cloudflare deployment of a folder is
\* triggered only after that folder's git push has succeeded:
\* triggerCloudflareDeployment is called for no folder whose add, status,
\* commit or push failed or which has no remote origin.
C19_DeployOnlyAfterPush ==
  deploy.pc # "off" =>
    /\ deploy.triggered \subseteq deploy.pushed
    /\ deploy.triggered \cap deploy.broken = {}

\* The deployment of one folder has been triggered in a run in which the
\* push of another folder failed.
C19_Witness ==
  /\ deploy.pc = "poll"
  /\ deploy.triggered # {}
  /\ deploy.broken # {}
  /\ \E i \in 1..Len(deploy.selected) :
       deploy.selected[i].cloudflare /\ deploy.selected[i].path \in deploy.broken

\* The footer block at the end of a text: an opening fence on a line of
\* its own at o, a closing fence on a line of its own that ends at e, no
\* backtick between them, and white space alone after e.
FooterBlockAt(md, o, e) ==
  /\ o >= 2 /\ IsLineBreak(md[o - 1])
  /\ SubSeq(md, o, o + 2) = Fence
  /\ o + 3 <= e - 3
  /\ IsLineBreak(md[o + 3])
  /\ IsLineBreak(md[e - 3])
  /\ SubSeq(md, e - 2, e) = Fence
  /\ \A j \in (o + 3)..(e - 3) : md[j] # Tick
  /\ \A j \in (e + 1)..Len(md) : IsSpace(md[j])

FooterBlocks(md) ==
  {oe \in (2..(Len(md) - 2)) \X (4..Len(md)) :
     oe[1] + 3 <= oe[2] - 3 /\ FooterBlockAt(md, oe[1], oe[2])}

\* The value written between the fences of the footer block.
FooterBlockValue(md) ==
  LET oe == CHOOSE x \in FooterBlocks(md) : TRUE
  IN  JsonParse(Trim(SubSeq(md, oe[1] + 3, oe[2] - 3)))

EndsWithFooter(md) ==
  FooterBlocks(md) # {} /\ FooterBlockValue(md).kind = "object"

\* C21: a parsed document that ends with a well-formed fenced JSON footer
\* followed only by spaces, tabs or newlines yields that footer's value:
\* extractSettingsFooter returns it and its fields are in the settings.
C21_TrailingWhitespaceTolerated ==
  (parser.pc # "ready" /\ EndsWithFooter(parser.md)) =>
    /\ extractSettingsFooter(parser.md) = FooterBlockValue(parser.md)
    /\ parser.pc = "done" =>
         \A k \in DOMAIN FooterBlockValue(parser.md).map :
           k \in DOMAIN parser.settings

\* The backticks of a text, and the characters the backward scan meets up
\* to the third backtick it counts (all of them when there are fewer).
Ticks(md) == {i \in 1..Len(md) : md[i] = Tick}

RECURSIVE NthLast(_, _)
NthLast(indices, n) ==
  IF indices = {} THEN 0
  ELSE IF n = 1 THEN Greatest(indices)
  ELSE NthLast(indices \ {Greatest(indices)}, n - 1)

MetBeforeFence(md) == {md[j] : j \in (NthLast(Ticks(md), 3) + 1)..Len(md)}

FooterGivesNothing ==
  /\ extractSettingsFooter(parser.md) \in {Object(EmptyMap), Value("undefined")}
  /\ parser.pc = "done" => parser.settings = EffectiveSettings(EmptyMap, HeaderOf(parser.md))

\* C22 as stated: when the backward scan meets, before the closing fence
\* is complete, a character that is not white space, a backtick or a line
\* boundary (a letter, a digit, a percent sign), the footer scan returns
\* empty and the footer gives no field to the settings.
C22_OtherCharactersAbort ==
  (/\ parser.pc # "ready"
   /\ MetBeforeFence(parser.md) \ {" ", "\t", "\n", "\r", Tick} # {})
  => FooterGivesNothing

\* C22 as amended: the same of a character that is not white space, a
\* backtick, a line boundary or a percent sign.
C22_OtherCharactersButPercentAbort ==
  (/\ parser.pc # "ready"
   /\ MetBeforeFence(parser.md) \ {" ", "\t", "\n", "\r", Tick, "%"} # {})
  => FooterGivesNothing

\* A parsed document whose footer has a field and is followed by a letter:
\* its settings are empty.
C22_Witness ==
  /\ parser.pc = "done"
  /\ \E e \in 6..(Len(parser.md) - 1) :
       /\ SubSeq(parser.md, e - 2, e) = Fence
       /\ SubSeq(parser.md, e - 5, e - 3) = <<"1", "}", "\n">>
       /\ SubSeq(parser.md, e + 1, Len(parser.md)) = <<"t">>
  /\ extractFrontmatter(parser.md) = Object(EmptyMap)
  /\ parser.settings = EmptyMap

\* C23: the footer scan finds a closing fence only in three backticks in
\* a row: when it returns anything but empty, the last three backticks of
\* the text are next to each other.
C23_FenceIsConsecutive ==
  (/\ parser.pc # "ready"
   /\ extractSettingsFooter(parser.md) \notin {Object(EmptyMap), Value("undefined")})
  => /\ Cardinality(Ticks(parser.md)) >= 3
     /\ NthLast(Ticks(parser.md), 3) + 2 = NthLast(Ticks(parser.md), 1)

\* One record for every eligible document of base, and no other.
OneRecordEach(files, base) ==
  /\ Len(files) = Cardinality(EligibleFiles(base))
  /\ \A f \in EligibleFiles(base) :
       \E i \in 1..Len(files) : files[i] = FileData(f, base, vault[f])

\* The folders of running rebuildAll calls whose chain is past Promise.all.
SortingFolders ==
  {ib \in CallIds \X Folders :
     /\ ib[1] \in DOMAIN calls
     /\ calls[ib[1]].op = "generate"
     /\ ib[2] \in DOMAIN calls[ib[1]].folds
     /\ calls[ib[1]].folds[ib[2]].phase \in {"deleteMeta", "createMeta", "done"}}

\* C24: in rebuildAll the chain of a base folder is past Promise.all, where
\* it sorts and builds the tag index, only when every assembly task of the
\* folder has completed; the index it then holds ready, and writes, has one
\* record for every eligible document of the folder.
C24_SortAfterAllTasks ==
  \A ib \in SortingFolders :
    LET fs == calls[ib[1]].folds[ib[2]]
    IN  /\ fs.reads = {} /\ fs.creates = {}
        /\ \A f \in EligibleFiles(ib[2]) : Exists(SavePath(f))
        /\ fs.phase = "createMeta" =>
             /\ OneRecordEach(fs.newMeta.files, ib[2])
             /\ fs.newMeta = MetaJson(SortByMtimeDesc(fs.exported))

\* A folder's chain is about to write its index after the task of the
\* document listed second completed first.
C24_Witness ==
  \E ib \in SortingFolders :
    LET fs == calls[ib[1]].folds[ib[2]]
    IN  /\ fs.phase = "createMeta"
        /\ Len(fs.exported) = 2
        /\ fs.exported[1].name = FileName(DocZ)
        /\ fs.exported[2].name = FileName(DocX)

\* The main.meta.json files of a vault, as written.
IndexFiles(v) == {q \in DOMAIN v : v[q].kind = "meta"}

\* C25: the record order rebuildAll writes is determined by the documents.
\* When a rebuildAll returns whose preceding user action was a rebuildAll
\* too and no vault operation has failed, every main.meta.json both runs
\* wrote has the same sequence of records and the same tag index, entry
\* order included.
C25_RecordOrderDetermined ==
  [][\A id \in DOMAIN calls :
       (/\ calls[id].op = "generate"
        /\ calls[id].prev.op = "generate"
        /\ id \notin DOMAIN calls'
        /\ faults' = 0)
       => \A m \in IndexFiles(vault') \cap IndexFiles(calls[id].before) :
            /\ vault'[m].files = calls[id].before[m].files
            /\ vault'[m].tags = calls[id].before[m].tags]_vars

\* The embed a preview field starts with, and whether its target names a
\* file of the vault.
StartsWithEmbed(md) ==
  /\ md # <<>>
  /\ md[1] \in {"![[", "![]("}
  /\ \E j \in 2..Len(md) : md[j] = Closer(md[1])

EmbedTarget(md) ==
  LET j == CHOOSE k \in 2..Len(md) :
             md[k] = Closer(md[1]) /\ \A i \in 2..(k - 1) : md[i] # Closer(md[1])
      text == SubSeq(md, 2, j - 1)
  IN  IF md[1] = "![[" THEN getNormalizedPath(text) ELSE decodeURIComponent(text)

StartsWithResolvedEmbed(md) ==
  StartsWithEmbed(md) /\ getFirstLinkpathDest(EmbedTarget(md)) # NoValue

\* C26: preview resolution never fails assembly.  When the frontmatter has
\* no preview field, or the field does not start with an embed whose
\* target names a file, the preview is undefined and no error is raised.
C26_PreviewNeverFails ==
  (/\ parser.pc \in {"assembled", "raised"}
   /\ (parser.md = NoValue \/ ~StartsWithResolvedEmbed(parser.md)))
  => parser.pc = "assembled" /\ parser.preview = NoValue

\* The records of a file as JSON.parse reads them in saveAsPublished:
\* none of a file that is missing or that is no JSON.
RecordsIn(v, m) ==
  IF m \in DOMAIN v /\ v[m].kind = "meta" THEN Range(v[m].files) ELSE {}

\* C27: publishOne(d) keeps the records of the other paths.  When a
\* publishOne writes main.meta.json, every record the file held whose path
\* is not the published one is in the new list, and a file that was there
\* is given a list of the published record alone only if it held no
\* record of another path: as valid JSON, not as text that does not parse.
C27_PublishKeepsOtherRecords ==
  [][\A id \in DOMAIN calls :
       LET m == MetadataPath(calls[id].base)
       IN  (/\ calls[id].op = "publish"
            /\ calls[id].pc = "writeMeta"
            /\ m \in DOMAIN vault'
            /\ ~SameFile(m))
           => /\ \A r \in RecordsIn(vault, m) :
                   r.path # calls[id].fileData.path => r \in RecordsIn(vault', m)
              /\ (Exists(m) /\ vault'[m].files = <<calls[id].fileData>>)
                   => vault[m].kind = "meta"]_vars

\* The base folder of a main.meta.json.
FolderOf(m) == SubSeq(m, 1, Len(m) - 3)

\* The records of an index that carry the path of a document's artifact.
ArtifactRecords(m) ==
  {r \in Range(vault[m].files) :
     \E d \in Docs : r.path = RelativeArtifact(d, FolderOf(m))}

\* C28: every record refers to an artifact that exists.  Whenever no
\* command is running, each record of each main.meta.json that carries the
\* path of a document's artifact has that .ast.json file in the vault.
C28_RecordsHaveArtifacts ==
  Idle =>
    \A m \in MetaFiles :
      \A r \in ArtifactRecords(m) : Exists(FolderOf(m) \o <<"/">> \o r.path)

\* The running rebuildAll calls with the base folders they scan.
RebuildScans ==
  {ib \in CallIds \X Folders :
     /\ ib[1] \in DOMAIN calls
     /\ calls[ib[1]].op = "generate"
     /\ ib[2] \in DOMAIN calls[ib[1]].folds}

\* C29: rebuildAll and publishOne build the same record of one document.
\* Each record a rebuildAll has pushed for a base folder is the record
\* publishOne puts into that folder's index for the same unchanged
\* document, so publishing the documents one by one gives the records of
\* one rebuildAll.
C29_SameRecordBothWays ==
  \A ib \in RebuildScans :
    \A r \in Range(calls[ib[1]].folds[ib[2]].exported) :
      \E d \in EligibleFiles(ib[2]) :
        /\ r.name = FileName(d)
        /\ r = PublishedFileData(d, ib[2], vault[d])

\* The draftOne and publishOne calls under way.
SaveCalls(cs) == {id \in DOMAIN cs : cs[id].op \in {"draft", "publish"}}

\* The configured folders that hold a file, by their place in the list.
Holding(file) ==
  {i \in 1..Len(BaseFolders) : StartsWith(file, BaseFolders[i] \o <<"/">>)}

\* base is the first configured folder that holds file.
IsFirstHolding(base, file) ==
  \E i \in Holding(file) :
    BaseFolders[i] = base /\ \A j \in Holding(file) : i <= j

\* The files a draftOne or publishOne call may write.
SaveWrites(call) ==
  {ArtifactPath(call), CopyPath(call)}
  \cup (IF call.op = "publish" THEN {MetadataPath(call.base)} ELSE {})

\* C30: a draftOne or publishOne of a document that no configured base
\* folder holds returns at once and leaves the vault as it is; one of a
\* document that several configured folders hold works for the first of
\* them, and writes its artifact, its raw copy and (publishOne) the
\* main.meta.json of that folder, and no other file.
C30_OutsideWritesNothing ==
  [][/\ (/\ last'.op \in {"draft", "publish"}
         /\ ops' = ops + 1
         /\ Holding(last'.file) = {})
        => vault' = vault /\ calls' = calls
     /\ \A id \in SaveCalls(calls) :
          /\ Holding(calls[id].file) # {}
          /\ IsFirstHolding(calls[id].base, calls[id].file)
          /\ (id \notin DOMAIN calls' \/ calls'[id] # calls[id])
               => \A p \in DOMAIN vault \cup DOMAIN vault' :
                    ~SameFile(p) => p \in SaveWrites(calls[id])]_vars

\* A publishOne of the document that both configured folders hold has
\* written the index of the first one and returned.
C30_Witness ==
  /\ settings.baseFolders = <<FolderA, FolderS>>
  /\ \E r \in done :
       r.op = "publish" /\ r.file = DocZ /\ r.base = FolderA /\ r.result = "ok"
  /\ Exists(MetadataPath(FolderA))
  /\ ~Exists(MetadataPath(FolderS))

====
